---------------------------- MODULE Spec2Model ----------------------------
(***************************************************************************)
(* A model of pi-search (src/main.go, the program of lines 1-300): the     *)
(* postfix value stack, Parse, Valid, Evaluate, Generate, Improve and the  *)
(* concurrent Search loop.                                                 *)
(*                                                                         *)
(* Numbers.  A Go Number is a float64.  It is modelled as a sign-magnitude *)
(* record: a finite value s*n/d (n/d in lowest terms, so a signed zero is  *)
(* n = 0 with its sign), an infinity with its sign, or NaN.  +, * and /    *)
(* follow IEEE 754 on these (exactly, without rounding); math.Sqrt is      *)
(* exact on perfect squares and rounded down to 1/SqrtScale otherwise.     *)
(* Floats from 2^53 up to 2^54, where float64 holds the even integers      *)
(* only, are records of kind "big" with the rounding of y + x.             *)
(*                                                                         *)
(* Stacks.  A *Stack is an id into heap; heap[id] is the items slice of    *)
(* that Stack object, front first.  No two Stack objects of the program    *)
(* share a backing array (Copy, Push, Parse and Generate all allocate), so *)
(* a slice is modelled by its contents.                                    *)
(***************************************************************************)
EXTENDS Integers, Sequences, FiniteSets, TLC

VARIABLES
    heap,     \* Stack objects: id -> items (front first)
    call,     \* the last completed call of the library, with its results
    params,   \* the arguments of the running Search call
    pc,       \* Search: each worker's position in its loop
    wexpr,    \* Search: each worker's local `expression` (a stack id, 0 = none)
    wval,     \* Search: each worker's local `val`
    emitted,  \* Search: the last match record printed
    crashed   \* Search: a goroutine panicked, the process is gone

vars == <<heap, call, params, pc, wexpr, wval, emitted, crashed>>

----------------------------------------------------------------------------
(* Bounds of the model *)

\* math.Sqrt of a non-square is rounded down to a multiple of 1/SqrtScale
SqrtScale == 100

\* SpecEval: the longest atom sequence handed to Valid and Evaluate
MaxAtoms == 4

\* SpecFrame: the longest stack, and how many Stack objects are alive at once
MaxFrameLen == 3

MaxStacks == 2

\* SpecText: the longest stack rendered and parsed back
MaxTextLen == 3

\* rand.Intn(n) draws from the first MaxDraw values of [0, n)
MaxDraw == 3

\* SpecGen: the largest length asked of Generate
MaxGenLen == 8

\* SpecImprove: the longest stack handed to Improve
MaxImproveLen == 4

\* SpecSearch: the goroutines Search starts (the program starts 10)
NumWorkers == 2

----------------------------------------------------------------------------
(* Number: float64 arithmetic *)

\* Body(v) with v evaluated once, as := binds the value of a Go expression
With(v, Body(_)) == CHOOSE r \in {Body(x) : x \in {v}} : TRUE

Abs(i) == IF i < 0 THEN -i ELSE i

RECURSIVE Gcd(_, _)
Gcd(a, b) == IF b = 0 THEN a ELSE Gcd(b, a % b)

NaN == [type |-> "Number", k |-> "nan", s |-> 1, n |-> 0, d |-> 1]

Inf(sign) == [type |-> "Number", k |-> "inf", s |-> sign, n |-> 0, d |-> 1]

\* the finite float sign * num / den, in lowest terms
Fin(sign, num, den) ==
    LET g == Gcd(num, den)
    IN  [type |-> "Number", k |-> "fin", s |-> sign, n |-> num \div g, d |-> den \div g]

\* the float sign * (2^53 + off), off even: from 2^53 up to 2^54 the floats are
\* the even integers
Big(sign, off) == [type |-> "Number", k |-> "big", s |-> sign, n |-> off, d |-> 1]

\* an operand pair the model of the arithmetic does not cover; no state of the
\* specifications below evaluates it
Unmodelled == CHOOSE x \in {} : TRUE

\* the even integer nearest to num / den >= 0, a tie going to the one whose
\* half is even (round to nearest, ties to even mantissa)
RoundEven(num, den) ==
    LET lo   == 2 * (num \div (2 * den))
        over == num - lo * den
    IN  IF over < den THEN lo
        ELSE IF over > den THEN lo + 2
        ELSE IF (lo \div 2) % 2 = 0 THEN lo ELSE lo + 2

\* y + x with an operand of magnitude 2^53 or more: two such floats of opposite
\* sign differ by an even integer, which is exact; a small x moves y to the
\* nearest float
BigAdd(y, x) ==
    IF y.k = "big" /\ x.k = "big"
    THEN IF y.s = x.s THEN Unmodelled
         ELSE IF y.n = x.n THEN Fin(1, 0, 1)
         ELSE Fin(IF y.n > x.n THEN y.s ELSE x.s, Abs(y.n - x.n), 1)
    ELSE LET b   == IF y.k = "big" THEN y ELSE x
             f   == IF y.k = "big" THEN x ELSE y
             num == b.n * f.d + b.s * f.s * f.n
         IN  IF num < 0 THEN Unmodelled ELSE Big(b.s, RoundEven(num, f.d))

\* Number(float64(i)) for an int i
Num(i) == Fin(IF i < 0 THEN -1 ELSE 1, Abs(i), 1)

IsNaN(x) == x.k = "nan"

IsZero(x) == x.k = "fin" /\ x.n = 0

NumNeg(x) == IF IsNaN(x) THEN x ELSE [x EXCEPT !.s = -x.s]

NumAbs(x) == IF IsNaN(x) THEN x ELSE [x EXCEPT !.s = 1]

\* y + x
NumAdd(y, x) ==
    IF IsNaN(y) \/ IsNaN(x) THEN NaN
    ELSE IF y.k = "inf" /\ x.k = "inf" THEN (IF y.s = x.s THEN y ELSE NaN)
    ELSE IF y.k = "inf" THEN y
    ELSE IF x.k = "inf" THEN x
    ELSE IF y.k = "big" \/ x.k = "big" THEN BigAdd(y, x)
    ELSE LET num == y.s * y.n * x.d + x.s * x.n * y.d
         IN  IF num = 0
             THEN Fin(IF y.s = -1 /\ x.s = -1 THEN -1 ELSE 1, 0, 1)
             ELSE Fin(IF num < 0 THEN -1 ELSE 1, Abs(num), y.d * x.d)

\* y - x
NumSub(y, x) == NumAdd(y, NumNeg(x))

\* y * x
NumMul(y, x) ==
    IF IsNaN(y) \/ IsNaN(x) THEN NaN
    ELSE IF y.k = "inf" \/ x.k = "inf"
         THEN (IF IsZero(y) \/ IsZero(x) THEN NaN ELSE Inf(y.s * x.s))
    ELSE IF y.k = "big" \/ x.k = "big" THEN Unmodelled
    ELSE Fin(y.s * x.s, y.n * x.n, y.d * x.d)

\* y / x
NumDiv(y, x) ==
    IF IsNaN(y) \/ IsNaN(x) THEN NaN
    ELSE IF y.k = "inf" THEN (IF x.k = "inf" THEN NaN ELSE Inf(y.s * x.s))
    ELSE IF x.k = "inf" THEN Fin(y.s * x.s, 0, 1)
    ELSE IF y.k = "big" \/ x.k = "big" THEN Unmodelled
    ELSE IF IsZero(x) THEN (IF IsZero(y) THEN NaN ELSE Inf(y.s * x.s))
    ELSE Fin(y.s * x.s, y.n * x.d, y.d * x.n)

\* the integer square root of m
ISqrt(m) == CHOOSE r \in 0..m : r * r <= m /\ (r + 1) * (r + 1) > m

IsSquare(m) == ISqrt(m) * ISqrt(m) = m

\* math.Sqrt(x)
NumSqrt(x) ==
    IF IsNaN(x) THEN NaN
    ELSE IF IsZero(x) THEN x
    ELSE IF x.s = -1 THEN NaN
    ELSE IF x.k = "inf" THEN x
    ELSE IF x.k = "big" THEN Unmodelled
    ELSE IF IsSquare(x.n) /\ IsSquare(x.d) THEN Fin(1, ISqrt(x.n), ISqrt(x.d))
    ELSE Fin(1, ISqrt((x.n * SqrtScale * SqrtScale) \div x.d), SqrtScale)

\* y < x on floats: false when either is NaN, and -0 = +0
NumLess(y, x) ==
    IF IsNaN(y) \/ IsNaN(x) THEN FALSE
    ELSE IF y.k = "inf" THEN y.s = -1 /\ ~(x.k = "inf" /\ x.s = -1)
    ELSE IF x.k = "inf" THEN x.s = 1
    ELSE IF y.k = "big" \/ x.k = "big" THEN Unmodelled
    ELSE y.s * y.n * x.d < x.s * x.n * y.d

\* y == x on floats
NumEq(y, x) ==
    IF IsNaN(y) \/ IsNaN(x) THEN FALSE
    ELSE IF IsZero(y) /\ IsZero(x) THEN TRUE
    ELSE y = x

----------------------------------------------------------------------------
(* Atom *)

Op(sym) == [type |-> "Operator", sym |-> sym]

ADD == Op("+")

DIV == Op("/")

MUL == Op("*")

\* the square root sign U+221A, written v here
SQRT == Op("v")

IsOperator(atom) == atom.type = "Operator"

----------------------------------------------------------------------------
(* Stack *)

\* a fresh Stack object: the smallest id not in use
NewId(h) == CHOOSE i \in 1..(Cardinality(DOMAIN h) + 1) : i \notin DOMAIN h

\* h with a new Stack object holding items
Alloc(h, id, items) == [i \in DOMAIN h \cup {id} |-> IF i = id THEN items ELSE h[i]]

\* NewStack(items...) and &Stack{}: the heap after, and the new pointer
NewStack(h, items) ==
    LET id == NewId(h) IN [h |-> Alloc(h, id, items), s |-> id]

StackLen(h, s) == Len(h[s])

\* s.Pop(): panics (index out of range) on an empty stack
Pop(h, s) ==
    IF Len(h[s]) = 0
    THEN [panic |-> TRUE, h |-> h, atom |-> NaN]
    ELSE [panic |-> FALSE, h |-> [h EXCEPT ![s] = Tail(h[s])], atom |-> Head(h[s])]

\* s.Peek(): panics on an empty stack
Peek(h, s) ==
    IF Len(h[s]) = 0
    THEN [panic |-> TRUE, atom |-> NaN]
    ELSE [panic |-> FALSE, atom |-> Head(h[s])]

\* s.Push(atom)
Push(h, s, atom) == [h EXCEPT ![s] = <<atom>> \o h[s]]

\* a variant handing back the same Stack object
CopyAlias(h, s) == [h |-> h, s |-> s]

\* s.Copy()
Copy(h, s) == NewStack(h, h[s])

----------------------------------------------------------------------------
(* Valid *)

\* a variant of the switch without the case SQRT, as in the program of lines
\* 302-458, where SQRT would count as a value
ValenceNoSqrt(atom) ==
    IF atom = ADD THEN 2
    ELSE IF atom = MUL THEN 2
    ELSE IF atom = DIV THEN 2
    ELSE 0

\* the switch of Valid: the number of operands the atom consumes
Valence(atom) ==
    IF atom = ADD THEN 2
    ELSE IF atom = MUL THEN 2
    ELSE IF atom = DIV THEN 2
    ELSE IF atom = SQRT THEN 1
    ELSE 0

\* the loop of Valid over the rest of the items, size being the running depth
RECURSIVE ValidLoop(_, _)
ValidLoop(items, size) ==
    IF items = <<>> THEN size = 1
    ELSE LET size1 == size + 1 - Valence(Head(items))
         IN  IF size1 <= 0 THEN FALSE ELSE ValidLoop(Tail(items), size1)

\* s.Valid()
Valid(h, s) == ValidLoop(h[s], 0)

----------------------------------------------------------------------------
(* Evaluate *)

\* a variant computing x op y, the operands in the order they are popped
BinaryResultSwapped(curr, y, x) ==
    IF curr = ADD THEN NumAdd(x, y)
    ELSE IF curr = MUL THEN NumMul(x, y)
    ELSE NumDiv(x, y)

\* what a binary operator pushes for the operands popped as x, then y
BinaryResult(curr, y, x) ==
    IF curr = ADD THEN NumAdd(y, x)
    ELSE IF curr = MUL THEN NumMul(y, x)
    ELSE NumDiv(y, x)

\* the cases ADD, MUL, DIV: x := nums.Pop(); y := nums.Pop(); nums.Push(y op x)
EvalBinary(h, nums, curr) ==
    LET px == Pop(h, nums)
        py == Pop(px.h, nums)
    IN  IF px.panic \/ py.panic
        THEN [panic |-> TRUE, h |-> h]
        ELSE [panic |-> FALSE, h |-> Push(py.h, nums, BinaryResult(curr, py.atom, px.atom))]

\* the case SQRT: x := nums.Pop(); nums.Push(math.Sqrt(x))
EvalSqrt(h, nums) ==
    LET px == Pop(h, nums)
    IN  IF px.panic
        THEN [panic |-> TRUE, h |-> h]
        ELSE [panic |-> FALSE, h |-> Push(px.h, nums, NumSqrt(px.atom))]

\* one iteration of the loop of Evaluate on the atom just popped
EvalStep(h, nums, curr) ==
    IF IsOperator(curr)
    THEN IF curr \in {ADD, MUL, DIV} THEN EvalBinary(h, nums, curr)
         ELSE IF curr = SQRT THEN EvalSqrt(h, nums)
         ELSE [panic |-> FALSE, h |-> h]
    ELSE [panic |-> FALSE, h |-> Push(h, nums, curr)]

\* for stack.Len() > 0 { curr := stack.Pop(); ... }
RECURSIVE EvalLoop(_, _, _)
EvalLoop(h, nums, stack) ==
    IF StackLen(h, stack) = 0 THEN [panic |-> FALSE, h |-> h]
    ELSE With(Pop(h, stack),
           LAMBDA p :
             With(EvalStep(p.h, nums, p.atom),
               LAMBDA r : IF r.panic THEN r ELSE EvalLoop(r.h, nums, stack)))

\* Evaluate(s) up to its return statement: the heap with the locals nums and
\* stack still in it, and how many values nums holds
EvaluateRun(h, s) ==
    With(Copy(NewStack(h, <<>>).h, s),
      LAMBDA c :
        With(EvalLoop(c.h, NewId(h), c.s),
          LAMBDA r : [panic |-> r.panic, h |-> r.h, nums |-> NewId(h),
                      left |-> IF r.panic THEN 0 ELSE StackLen(r.h, NewId(h))]))

\* Evaluate(s): whether it panicked, the float64 it returned, and the heap
\* after it (its locals are garbage then)
Evaluate(h, s) ==
    With(EvaluateRun(h, s),
      LAMBDA r :
        LET pk == Peek(r.h, r.nums)
        IN  [panic |-> r.panic \/ pk.panic,
             val   |-> IF r.panic \/ pk.panic THEN NaN ELSE pk.atom,
             h     |-> [i \in DOMAIN h |-> r.h[i]]])

----------------------------------------------------------------------------
(* String and Parse.  A Go string is modelled as the sequence of its          *)
(* characters, each a one-character string.                                   *)

DigitChars == <<"0", "1", "2", "3", "4", "5", "6", "7", "8", "9">>

IsDigit(c) == \E i \in 1..10 : DigitChars[i] = c

DigitVal(c) == (CHOOSE i \in 1..10 : DigitChars[i] = c) - 1

\* the decimal digits of the natural number n
RECURSIVE Digits(_)
Digits(n) ==
    IF n < 10 THEN <<DigitChars[n + 1]>>
    ELSE Digits(n \div 10) \o <<DigitChars[(n % 10) + 1]>>

\* the digits after the decimal point of r/d, 0 <= r < d, d a divisor of a power of 10
RECURSIVE FracDigits(_, _)
FracDigits(r, d) ==
    IF r = 0 THEN <<>>
    ELSE <<DigitChars[((r * 10) \div d) + 1]>> \o FracDigits((r * 10) % d, d)

\* fmt.Sprint(x) of a Number: %v of a float64, the shortest decimal that parses
\* back to x (no exponent for the magnitudes of the model)
Sprint(x) ==
    IF x.k = "nan" THEN <<"N", "a", "N">>
    ELSE IF x.k = "inf" THEN <<IF x.s = 1 THEN "+" ELSE "-", "I", "n", "f">>
    ELSE (IF x.s = -1 THEN <<"-">> ELSE <<>>)
         \o Digits(x.n \div x.d)
         \o (IF x.d = 1 THEN <<>> ELSE <<".">> \o FracDigits(x.n % x.d, x.d))

\* strings.Join(out, " ")
RECURSIVE Join(_)
Join(out) ==
    IF out = <<>> THEN <<>>
    ELSE IF Len(out) = 1 THEN out[1]
    ELSE out[1] \o <<" ">> \o Join(Tail(out))

\* s.String()
String(h, s) ==
    Join([i \in 1..Len(h[s]) |->
            IF IsOperator(h[s][i]) THEN <<h[s][i].sym>> ELSE Sprint(h[s][i])])

\* strings.Split(text, " "): always at least one token, maybe empty
RECURSIVE Split(_)
Split(text) ==
    IF \A i \in 1..Len(text) : text[i] # " " THEN <<text>>
    ELSE LET k == CHOOSE i \in 1..Len(text) :
                      text[i] = " " /\ \A j \in 1..(i - 1) : text[j] # " "
         IN  <<SubSeq(text, 1, k - 1)>> \o Split(SubSeq(text, k + 1, Len(text)))

\* the value of a digit string read as a natural number
RECURSIVE DigitsVal(_)
DigitsVal(ds) ==
    IF ds = <<>> THEN 0
    ELSE DigitsVal(SubSeq(ds, 1, Len(ds) - 1)) * 10 + DigitVal(ds[Len(ds)])

RECURSIVE Pow10Nat(_)
Pow10Nat(e) == IF e = 0 THEN 1 ELSE 10 * Pow10Nat(e - 1)

\* strconv.ParseFloat(token, 64) on the spellings modelled: NaN, [+-]Inf, and
\* [+-]digits[.digits] with at least one digit; anything else is an error
ParseFloat(token) ==
    LET signed == token # <<>> /\ token[1] \in {"+", "-"}
        sign   == IF signed /\ token[1] = "-" THEN -1 ELSE 1
        body   == IF signed THEN Tail(token) ELSE token
        dots   == {i \in 1..Len(body) : body[i] = "."}
        dot    == IF dots = {} THEN Len(body) + 1 ELSE CHOOSE i \in dots : TRUE
        ip     == SubSeq(body, 1, dot - 1)
        fp     == SubSeq(body, dot + 1, Len(body))
    IN  IF token = <<"N", "a", "N">> THEN [err |-> FALSE, num |-> NaN]
        ELSE IF body = <<"I", "n", "f">> THEN [err |-> FALSE, num |-> Inf(sign)]
        ELSE IF /\ Cardinality(dots) <= 1
                /\ Len(ip) + Len(fp) > 0
                /\ \A i \in 1..Len(ip) : IsDigit(ip[i])
                /\ \A i \in 1..Len(fp) : IsDigit(fp[i])
             THEN [err |-> FALSE,
                   num |-> Fin(sign, DigitsVal(ip) * Pow10Nat(Len(fp)) + DigitsVal(fp),
                               Pow10Nat(Len(fp)))]
             ELSE [err |-> TRUE, num |-> NaN]

\* the switch of Parse on one token
ParseAtom(token) ==
    IF token = <<"+">> THEN [err |-> FALSE, atom |-> ADD]
    ELSE IF token = <<"*">> THEN [err |-> FALSE, atom |-> MUL]
    ELSE IF token = <<"/">> THEN [err |-> FALSE, atom |-> DIV]
    ELSE IF token = <<"v">> THEN [err |-> FALSE, atom |-> SQRT]
    ELSE LET f == ParseFloat(token) IN [err |-> f.err, atom |-> f.num]

\* a variant pushing parsedAtoms front to back
PushIndexForward(length, i) == i + 1

\* the index of parsedAtoms that the i-th iteration (i from 0) of the second
\* loop of Parse pushes
PushIndex(length, i) == (length - i - 1) + 1

\* for i := range parsedAtoms { stack.Push(parsedAtoms[length-i-1]) }
RECURSIVE PushLoop(_, _, _, _)
PushLoop(h, stack, parsedAtoms, i) ==
    IF i >= Len(parsedAtoms) THEN h
    ELSE PushLoop(Push(h, stack, parsedAtoms[PushIndex(Len(parsedAtoms), i)]),
                  stack, parsedAtoms, i + 1)

\* Parse(expression): the error, or the new stack
Parse(h, expression) ==
    LET unparsedAtoms == Split(expression)
        parsed        == [i \in 1..Len(unparsedAtoms) |-> ParseAtom(unparsedAtoms[i])]
        parsedAtoms   == [i \in 1..Len(unparsedAtoms) |-> parsed[i].atom]
        stack         == NewStack(h, <<>>)
    IN  IF \E i \in 1..Len(parsed) : parsed[i].err
        THEN [err |-> TRUE, h |-> h, s |-> 0]
        ELSE [err |-> FALSE, h |-> PushLoop(stack.h, stack.s, parsedAtoms, 0), s |-> stack.s]

----------------------------------------------------------------------------
(* Generate.  A call of math/rand is a choice: the operators below are the    *)
(* sets of results the draws can give.                                        *)

\* rand.Intn(n), n > 0
Intn(n) == {i \in 0..(n - 1) : i < MaxDraw}

\* a variant whose operators include the unary SQRT
RandomOperatorWithSqrt == {<<ADD, DIV, SQRT>>[i + 1] : i \in Intn(3)}

\* RandomOperator()
RandomOperator == {<<ADD, DIV, MUL>>[i + 1] : i \in Intn(3)}

\* RandomWholeNumber(min, max)
RandomWholeNumber(min, max) == {Num(i + min) : i \in Intn(max - min)}

\* a variant of the split that leaves room for the operator
SplitLengthBelow(length) == (length - 1) \div 2

\* the length asked of each of the two recursive calls of the binary split
SplitLength(length) == length \div 2

\* generateRecursive(min, max, length)
RECURSIVE generateRecursive(_, _, _)
generateRecursive(min, max, length) ==
    IF length < 1 THEN {<<>>}
    ELSE IF length = 1 THEN {<<a>> : a \in RandomWholeNumber(min, max)}
    ELSE IF length = 2 THEN {<<a, SQRT>> : a \in RandomWholeNumber(min, max)}
    ELSE IF length = 3
         THEN {<<a, b, o>> : a \in RandomWholeNumber(min, max),
                             b \in RandomWholeNumber(min, max), o \in RandomOperator}
    ELSE UNION {
           IF unary
           THEN {Append(g, SQRT) : g \in generateRecursive(min, max, length - 1)}
           ELSE {g1 \o (g2 \o <<o>>) :
                    g1 \in generateRecursive(min, max, SplitLength(length)),
                    g2 \in generateRecursive(min, max, SplitLength(length)),
                    o \in RandomOperator}
           : unary \in {r = 0 : r \in Intn(4)}}

\* the bounds Generate hands to generateRecursive
GenerateMin == 1

GenerateMax == 10

\* Generate(length): the item slices it can build
Generate(length) == generateRecursive(GenerateMin, GenerateMax, length)

----------------------------------------------------------------------------
(* Improve *)

\* expression.items[i] = num + 1 (i counted from 1 here)
SetIncremented(h, expression, i, num) ==
    [h EXCEPT ![expression][i] = NumAdd(num, Num(1))]

\* expression.items[i] = num
RestoreLiteral(h, expression, i, num) == [h EXCEPT ![expression][i] = num]

\* the loop of Improve from index i on
RECURSIVE ImproveLoop(_, _, _, _, _, _)
ImproveLoop(h, expression, target, val, diff, i) ==
    IF i > Len(h[expression])
    THEN [panic |-> FALSE, improved |-> FALSE, val |-> val, diff |-> diff, h |-> h]
    ELSE LET atom == h[expression][i]
         IN  IF IsOperator(atom)
             THEN ImproveLoop(h, expression, target, val, diff, i + 1)
             ELSE With(Evaluate(SetIncremented(h, expression, i, atom), expression),
                    LAMBDA e :
                      LET newVal  == e.val
                          newDiff == NumAbs(NumSub(target, newVal))
                      IN  IF e.panic
                          THEN [panic |-> TRUE, improved |-> FALSE, val |-> val,
                                diff |-> diff, h |-> e.h]
                          ELSE IF NumLess(newDiff, diff)
                          THEN [panic |-> FALSE, improved |-> TRUE, val |-> newVal,
                                diff |-> newDiff, h |-> e.h]
                          ELSE With(RestoreLiteral(e.h, expression, i, atom),
                                 LAMBDA h2 :
                                   ImproveLoop(h2, expression, target, val, diff, i + 1)))

\* Improve(expression, target, val, diff); the stack returned is expression
Improve(h, expression, target, val, diff) ==
    ImproveLoop(h, expression, target, val, diff, 1)

----------------------------------------------------------------------------
(* Calls of the library, one action per call *)

NoCall == [op |-> "none"]

\* every atom sequence of at most n atoms of the set atoms
RECURSIVE AtomSeqs(_, _)
AtomSeqs(atoms, n) ==
    IF n = 0 THEN {<<>>}
    ELSE LET shorter == AtomSeqs(atoms, n - 1)
         IN  shorter \cup {<<a>> \o q : a \in atoms, q \in {x \in shorter : Len(x) = n - 1}}

\* no Search is running
SearchIdle ==
    /\ params = [running |-> FALSE]
    /\ pc = <<>>
    /\ wexpr = <<>>
    /\ wval = <<>>
    /\ emitted = [any |-> FALSE]
    /\ crashed = FALSE

SearchVars == <<params, pc, wexpr, wval, emitted, crashed>>

\* s.Valid() for a stack s of the heap
CallValid(s) ==
    /\ s \in DOMAIN heap
    /\ call' = [op |-> "Valid", s |-> s, pre |-> heap, valid |-> Valid(heap, s)]
    /\ UNCHANGED <<heap, SearchVars>>

\* Evaluate(s) for a stack s of the heap
CallEvaluate(s) ==
    /\ s \in DOMAIN heap
    /\ LET r == Evaluate(heap, s)
       IN  /\ heap' = r.h
           /\ call' = [op |-> "Evaluate", s |-> s, pre |-> heap, panic |-> r.panic,
                       val |-> r.val, runPanic |-> EvaluateRun(heap, s).panic,
                       left |-> EvaluateRun(heap, s).left]
    /\ UNCHANGED SearchVars

\* c := s.Copy()
CallCopy(s) ==
    /\ s \in DOMAIN heap
    /\ Cardinality(DOMAIN heap) < MaxStacks
    /\ LET c == Copy(heap, s)
       IN  /\ heap' = c.h
           /\ call' = [op |-> "Copy", s |-> s, pre |-> heap, out |-> c.s]
    /\ UNCHANGED SearchVars

\* s.Pop()
CallPop(s) ==
    /\ s \in DOMAIN heap
    /\ LET p == Pop(heap, s)
       IN  /\ heap' = p.h
           /\ call' = [op |-> "Pop", s |-> s, pre |-> heap, panic |-> p.panic, atom |-> p.atom]
    /\ UNCHANGED SearchVars

\* s.Push(atom)
CallPush(s, atom) ==
    /\ s \in DOMAIN heap
    /\ StackLen(heap, s) < MaxFrameLen
    /\ heap' = Push(heap, s, atom)
    /\ call' = [op |-> "Push", s |-> s, pre |-> heap, atom |-> atom]
    /\ UNCHANGED SearchVars

\* text := s.String()
CallString(s) ==
    /\ s \in DOMAIN heap
    /\ call' = [op |-> "String", s |-> s, pre |-> heap, text |-> String(heap, s)]
    /\ UNCHANGED <<heap, SearchVars>>

\* Parse(text); from is the stack whose rendering text is (0: text was written
\* by hand).  The caller keeps its first stack and the stack parsed.
CallParse(text, from) ==
    /\ LET kept == [i \in {1} |-> heap[i]]
           r    == Parse(kept, text)
       IN  /\ heap' = r.h
           /\ call' = [op |-> "Parse", text |-> text, from |-> from, pre |-> kept,
                       err |-> r.err, out |-> r.s]
    /\ UNCHANGED SearchVars

\* Generate(length), for the length asked in the initial state
CallGenerate ==
    /\ call.op = "ask"
    /\ \E items \in Generate(call.length) :
          LET r == NewStack(heap, items)
          IN  /\ heap' = r.h
              /\ call' = [op |-> "Generate", length |-> call.length, out |-> r.s]
    /\ UNCHANGED SearchVars

\* Improve(s, target, val, diff), once
CallImprove(s, target, val, diff) ==
    /\ s \in DOMAIN heap
    /\ call = NoCall
    /\ LET r == Improve(heap, s, target, val, diff)
       IN  /\ heap' = r.h
           /\ call' = [op |-> "Improve", s |-> s, pre |-> heap, target |-> target,
                       val |-> val, diff |-> diff, panic |-> r.panic,
                       improved |-> r.improved, newVal |-> r.val, newDiff |-> r.diff,
                       out |-> s]
    /\ UNCHANGED SearchVars

----------------------------------------------------------------------------
(* SpecEval: Valid and Evaluate on every short atom sequence *)

EvalAtoms == {Num(-1), Num(0), Num(2), ADD, MUL, DIV, SQRT}

\* "1 2 + 3 4 / * 10 +", the expression main parses in the program of lines 302-458
Example == <<Num(1), Num(2), ADD, Num(3), Num(4), DIV, MUL, Num(10), ADD>>

\* "1 2": two values and no operator
OneTwo == <<Num(1), Num(2)>>

InitEval ==
    /\ \E items \in AtomSeqs(EvalAtoms, MaxAtoms) \cup {Example, OneTwo} : heap = <<items>>
    /\ call = NoCall
    /\ SearchIdle

NextEval == CallValid(1) \/ CallEvaluate(1)

SpecEval == InitEval /\ [][NextEval]_vars

\* the value of a valid postfix expression by its structure: the last atom is
\* the root, and a binary root splits the rest into its left and right operand
RECURSIVE RefEval(_)
RefEval(e) ==
    LET n    == Len(e)
        root == e[n]
        rest == SubSeq(e, 1, n - 1)
    IN  IF ~IsOperator(root) THEN root
        ELSE IF root = SQRT THEN NumSqrt(RefEval(rest))
        ELSE LET k == CHOOSE i \in 1..(n - 2) :
                          /\ ValidLoop(SubSeq(rest, 1, i), 0)
                          /\ ValidLoop(SubSeq(rest, i + 1, n - 1), 0)
                 a == RefEval(SubSeq(rest, 1, k))
                 b == RefEval(SubSeq(rest, k + 1, n - 1))
             IN  IF root = ADD THEN NumAdd(a, b)
                 ELSE IF root = MUL THEN NumMul(a, b)
                 ELSE NumDiv(a, b)

\* C2: Valid(s) is true exactly when the accumulator run of Evaluate over s never
\* pops from an empty accumulator and ends with exactly one value on it; Valid
\* is false for "+" and for "1 2".
C2_ValidIffSimulation ==
    /\ call.op = "Evaluate" =>
          (Valid(call.pre, call.s) <=> (~call.runPanic /\ call.left = 1))
    /\ call.op = "Valid" =>
          /\ call.valid <=> (LET r == EvaluateRun(call.pre, call.s)
                             IN  ~r.panic /\ r.left = 1)
          /\ call.pre[call.s] \in {<<ADD>>, OneTwo} => ~call.valid

C2_Witness ==
    /\ call.op = "Valid"
    /\ call.pre[call.s] = <<Num(2), Num(0), SQRT, DIV>>
    /\ call.valid

\* C3: on a valid expression Evaluate returns the value of the expression read
\* as postfix, a binary operator after operands a then b giving a OP b and SQRT
\* the square root of its operand; "1 2 + 3 4 / * 10 +" gives 12.25.
C3_EvaluateIsPostfixValue ==
    (call.op = "Evaluate" /\ Valid(call.pre, call.s)) =>
        /\ ~call.panic
        /\ call.val = RefEval(call.pre[call.s])
        /\ call.pre[call.s] = Example => call.val = Fin(1, 49, 4)
        /\ call.pre[call.s] = <<Num(2), Num(-1), DIV>> => call.val = Num(-2)

C3_Witness ==
    /\ call.op = "Evaluate"
    /\ call.pre[call.s] = Example
    /\ call.val = Fin(1, 49, 4)

----------------------------------------------------------------------------
(* SpecFrame: Copy, Pop, Push and Evaluate on stacks that live side by side *)

FrameAtoms == {Num(2), ADD}

InitFrame ==
    /\ \E items \in AtomSeqs(FrameAtoms, MaxFrameLen) : heap = <<items>>
    /\ call = NoCall
    /\ SearchIdle

NextFrame ==
    \/ \E s \in DOMAIN heap : CallCopy(s)
    \/ \E s \in DOMAIN heap : CallEvaluate(s)
    \/ \E s \in DOMAIN heap : CallPop(s)
    \/ \E s \in DOMAIN heap, atom \in FrameAtoms : CallPush(s, atom)

SpecFrame == InitFrame /\ [][NextFrame]_vars

\* C4: Evaluate(s) leaves s, and every other stack, with the atoms it had before
\* the call; s.Copy() is a new stack with the atoms of s, and a Pop or Push on
\* one stack (a copy or its original) leaves every other stack unchanged.
C4_EvaluateLeavesStack ==
    /\ call.op = "Evaluate" => heap = call.pre
    /\ call.op = "Copy" =>
          /\ call.out \notin DOMAIN call.pre
          /\ heap[call.out] = call.pre[call.s]
          /\ \A t \in DOMAIN call.pre : heap[t] = call.pre[t]
    /\ call.op \in {"Pop", "Push"} =>
          \A t \in DOMAIN call.pre \ {call.s} : heap[t] = call.pre[t]

\* Evaluate has run on the copy of a valid three-atom expression that was
\* popped from in between
C4_Witness ==
    /\ call.op = "Evaluate"
    /\ call.s = 2
    /\ ~call.panic
    /\ heap[1] = <<Num(2), Num(2), ADD>>
    /\ heap[2] = <<Num(2)>>

----------------------------------------------------------------------------
(* SpecText: String and Parse *)

\* the literals 10, 0.75, -2.5, -0, NaN and +Inf, and the operators
TextAtoms == {Num(10), Fin(1, 3, 4), Fin(-1, 5, 2), Fin(-1, 0, 1), NaN, Inf(1),
              ADD, MUL, DIV, SQRT}

\* texts written by hand: "", "1  2", "x", "1 2 /", ".5 1. +"
HandTexts ==
    { <<>>,
      <<"1", " ", " ", "2">>,
      <<"x">>,
      <<"1", " ", "2", " ", "/">>,
      <<".", "5", " ", "1", ".", " ", "+">> }

InitText ==
    /\ \E items \in AtomSeqs(TextAtoms, MaxTextLen) : heap = <<items>>
    /\ call = NoCall
    /\ SearchIdle

NextText ==
    \/ CallString(1)
    \/ call.op = "String" /\ CallParse(call.text, call.s)
    \/ \E text \in HandTexts : CallParse(text, 0)

SpecText == InitText /\ [][NextText]_vars

\* C5: for a valid expression expr, Parse(expr.String()) succeeds and returns a
\* stack with the atoms of expr in the same front-to-back order, which
\* evaluates to the same value; the front of a parsed stack is the first token
\* of the text.
C5_RoundTrip ==
    /\ (call.op = "Parse" /\ call.from # 0 /\ Valid(call.pre, call.from)) =>
          /\ ~call.err
          /\ heap[call.out] = call.pre[call.from]
          /\ Evaluate(heap, call.out).val = Evaluate(heap, call.from).val
    /\ (call.op = "Parse" /\ call.text = <<"1", " ", "2", " ", "/">>) =>
          /\ ~call.err
          /\ heap[call.out] = <<Num(1), Num(2), DIV>>

C5_Witness ==
    /\ call.op = "Parse"
    /\ call.from = 1
    /\ call.text = <<"-", "2", ".", "5", " ", "0", ".", "7", "5", " ", "/">>
    /\ heap[call.out] = <<Fin(-1, 5, 2), Fin(1, 3, 4), DIV>>

----------------------------------------------------------------------------
(* SpecGen: Generate for every small length *)

InitGen ==
    /\ heap = <<>>
    /\ \E length \in 0..MaxGenLen : call = [op |-> "ask", length |-> length]
    /\ SearchIdle

NextGen == CallGenerate

SpecGen == InitGen /\ [][NextGen]_vars

\* C1: for every length n >= 1 asked (up to MaxGenLen) and every outcome of the
\* random draws, the stack Generate(n) returns satisfies Valid().
C1_GenerateValid ==
    (call.op = "Generate" /\ call.length >= 1) => Valid(heap, call.out)

\* Generate(8) took the binary split three times: two halves asked with length 4,
\* each again split in two
C1_Witness ==
    /\ call.op = "Generate"
    /\ call.length = 8
    /\ StackLen(heap, call.out) = 11
    /\ Valid(heap, call.out)

----------------------------------------------------------------------------
(* SpecImprove: one call of Improve on every short stack *)

\* the literals -1, 2 and +Inf, and three operators
ImproveAtoms == {Num(-1), Num(2), Inf(1), ADD, DIV, SQRT}

\* the one-literal expression 9007199254740994 = 2^53 + 2
BigLiteral == <<Big(1, 2)>>

\* the targets tried with the expression s: 0 and 1.5, and 9007199254740996 =
\* 2^53 + 4 with the literal 2^53 + 2
ImproveTargets(s) ==
    IF heap[s] = BigLiteral THEN {Big(1, 4)} ELSE {Num(0), Fin(1, 3, 2)}

\* val and diff as a caller that evaluated s against target has them, or a
\* val and a diff of the caller's own
ImproveArgs(s, target) ==
    LET e == Evaluate(heap, s)
    IN  {<<e.val, NumAbs(NumSub(target, e.val))>> : x \in {e.panic} \ {TRUE}}
        \cup {<<Num(7), d>> : d \in {Num(0), Fin(1, 1, 2), Num(3), Inf(1), NaN}}

InitImprove ==
    /\ \E items \in AtomSeqs(ImproveAtoms, MaxImproveLen) \cup {BigLiteral} :
          heap = <<items>>
    /\ call = NoCall
    /\ SearchIdle

NextImprove ==
    /\ call = NoCall
    /\ \E target \in ImproveTargets(1) :
          \E a \in ImproveArgs(1, target) : CallImprove(1, target, a[1], a[2])

SpecImprove == InitImprove /\ [][NextImprove]_vars

\* the indices at which the literals of two item slices differ
Changed(before, after) == {i \in 1..Len(before) : after[i] # before[i]}

\* C6 as stated: Improve on a valid expression returns; newDiff is never greater
\* than the diff passed in; with improved = true, newDiff < diff and the
\* expression differs from what it was at the call in exactly one literal,
\* whose value is exactly 1 larger; with improved = false the expression, val
\* and diff are as passed in.
C6_Improve ==
    (call.op = "Improve" /\ Valid(call.pre, call.s)) =>
        LET before == call.pre[call.s]
            after  == heap[call.out]
        IN  /\ ~call.panic
            /\ call.out = call.s
            /\ Len(after) = Len(before)
            /\ ~NumLess(call.diff, call.newDiff)
            /\ call.improved =>
                  /\ NumLess(call.newDiff, call.diff)
                  /\ Cardinality(Changed(before, after)) = 1
                  /\ \A i \in Changed(before, after) :
                        /\ ~IsOperator(before[i])
                        /\ ~IsOperator(after[i])
                        /\ NumSub(after[i], before[i]) = Num(1)
                  /\ call.newVal = Evaluate(heap, call.out).val
            /\ ~call.improved =>
                  /\ after = before
                  /\ call.newVal = call.val
                  /\ call.newDiff = call.diff

----------------------------------------------------------------------------
(* Search: the main goroutine starts the workers one by one and then blocks  *)
(* in select {}; a worker loops generate -> evaluate -> compare.  A panic in *)
(* any goroutine ends the process.                                           *)

Workers == 1..NumWorkers

\* math.Pow10(e)
Pow10(e) == IF e >= 0 THEN Num(Pow10Nat(e)) ELSE Fin(1, 1, Pow10Nat(-e))

\* a variant of the test that lets diff = epsilon through
IsMatchOrEqual(diff, epsilon) == ~NumLess(epsilon, diff)

\* the test of line 271
IsMatch(diff, epsilon) == NumLess(diff, epsilon)

\* the lengths rand.Intn(maxLength-minLength) + minLength can give
SearchLengths == {i + params.minLength : i \in Intn(params.maxLength - params.minLength)}

\* go func() { ... }(): the main goroutine starts the next worker
Spawn(w) ==
    /\ ~crashed
    /\ pc[w] = "unstarted"
    /\ \A v \in Workers : v < w => pc[v] # "unstarted"
    /\ pc' = [pc EXCEPT ![w] = "generate"]
    /\ UNCHANGED <<heap, call, params, wexpr, wval, emitted, crashed>>

\* expression := Generate(rand.Intn(maxLength-minLength) + minLength); no other
\* goroutine gets a pointer to the new Stack, which is named after its worker
WorkerGenerate(w) ==
    /\ ~crashed
    /\ pc[w] = "generate"
    /\ \E length \in SearchLengths :
          \E items \in Generate(length) :
             /\ heap' = Alloc(heap, w, items)
             /\ wexpr' = [wexpr EXCEPT ![w] = w]
    /\ pc' = [pc EXCEPT ![w] = "evaluate"]
    /\ UNCHANGED <<call, params, wval, emitted, crashed>>

\* val := Evaluate(expression)
WorkerEvaluate(w) ==
    /\ ~crashed
    /\ pc[w] = "evaluate"
    /\ LET r == Evaluate(heap, wexpr[w])
       IN  /\ heap' = r.h
           /\ crashed' = r.panic
           /\ pc' = [pc EXCEPT ![w] = IF r.panic THEN "panic" ELSE "compare"]
           /\ wval' = [wval EXCEPT ![w] = r.val]
    /\ UNCHANGED <<call, params, wexpr, emitted>>

\* diff := math.Abs(approximate - val); if diff < epsilon { fmt.Printf(...) };
\* expression and val go out of scope at the end of the iteration
WorkerCompare(w) ==
    /\ ~crashed
    /\ pc[w] = "compare"
    /\ LET diff == NumAbs(NumSub(params.approximate, wval[w]))
       IN  emitted' = IF IsMatch(diff, params.epsilon)
                      THEN [any |-> TRUE, ratio |-> NumDiv(diff, params.epsilon),
                            val |-> wval[w], text |-> String(heap, wexpr[w]),
                            items |-> heap[wexpr[w]]]
                      ELSE emitted
    /\ heap' = [i \in DOMAIN heap \ {wexpr[w]} |-> heap[i]]
    /\ wexpr' = [wexpr EXCEPT ![w] = 0]
    /\ wval' = [wval EXCEPT ![w] = Num(0)]
    /\ pc' = [pc EXCEPT ![w] = "generate"]
    /\ UNCHANGED <<call, params, crashed>>

----------------------------------------------------------------------------
(* SpecSearch: one call Search(approximate, precision, minLength, maxLength, *)
(* minNum, maxNum)                                                           *)

\* the argument lists <<approximate, precision, minLength, maxLength, minNum,
\* maxNum>> tried, each with minLength < maxLength
SearchCalls ==
    {<<Num(2), 0, 1, 3, 1, 100>>,
     <<Fin(1, 3, 2), 0, 1, 3, 2, 3>>,
     <<Num(2), 1, 0, 2, 1, 100>>}

InitSearch ==
    /\ heap = <<>>
    /\ call = NoCall
    /\ \E a \in SearchCalls :
          params = [running |-> TRUE, approximate |-> a[1], precision |-> a[2],
                    minLength |-> a[3], maxLength |-> a[4],
                    minNum |-> a[5], maxNum |-> a[6],
                    epsilon |-> Pow10(-a[2])]
    /\ pc = [w \in Workers |-> "unstarted"]
    /\ wexpr = [w \in Workers |-> 0]
    /\ wval = [w \in Workers |-> Num(0)]
    /\ emitted = [any |-> FALSE]
    /\ crashed = FALSE

NextSearch ==
    \/ \E w \in Workers : Spawn(w)
    \/ \E w \in Workers : WorkerGenerate(w)
    \/ \E w \in Workers : WorkerEvaluate(w)
    \/ \E w \in Workers : WorkerCompare(w)

SpecSearch == InitSearch /\ [][NextSearch]_vars

\* C7: in every interleaving of the workers, a match record printed carries the
\* value of the expression it prints, and |approximate - value| < epsilon with
\* epsilon = 10^-precision.
C7_MatchesWithinEpsilon ==
    emitted.any =>
        /\ Valid(<<emitted.items>>, 1)
        /\ emitted.val = RefEval(emitted.items)
        /\ Parse(<<>>, emitted.text).h[1] = emitted.items
        /\ NumLess(NumAbs(NumSub(params.approximate, emitted.val)),
                   Fin(1, 1, Pow10Nat(params.precision)))
        /\ NumLess(emitted.ratio, Num(1))

\* the second worker printed the match 3 v (1.73, within 1 of 2) while the
\* first was between its Generate and its Evaluate
C7_Witness ==
    /\ emitted.any
    /\ emitted.text = <<"3", " ", "v">>
    /\ emitted.val = Fin(1, 173, 100)
    /\ params.precision = 0
    /\ pc[1] = "evaluate"
    /\ pc[2] = "generate"

\* C8 as stated: every literal of every expression a worker generates lies in
\* [minNum, maxNum).
C8_LiteralsInRange ==
    \A w \in Workers :
        wexpr[w] # 0 =>
            \A i \in 1..Len(heap[wexpr[w]]) :
                LET atom == heap[wexpr[w]][i]
                IN  ~IsOperator(atom) =>
                        /\ ~NumLess(atom, Num(params.minNum))
                        /\ NumLess(atom, Num(params.maxNum))

\* C9 as stated: with minLength < maxLength no worker ever stops or hits a
\* fatal empty-stack Pop or Peek, and the process keeps running.
C9_NoFailingPath ==
    (params.running /\ params.minLength < params.maxLength) =>
        /\ ~crashed
        /\ \A w \in Workers : pc[w] # "panic"

=============================================================================
